---- MODULE Spec2Model ----
(***************************************************************************)
(* A model of the live audio analyser (src/src/main.rs): the start-up      *)
(* sequence of main, the audio callback built by create_stream, the        *)
(* display loop of main, the Mutex<AudioData> they share, and the pure     *)
(* functions calculate_rms, calculate_frequency and frequency_to_note.     *)
(*                                                                         *)
(* f32 values are modelled exactly: a value is a record                    *)
(*   [cls |-> "fin" | "inf" | "nan", neg |-> sign, m |-> M, e |-> E]       *)
(* standing for (-1)^neg * M * 2^E, with M the 24-bit significand of IEEE  *)
(* 754 binary32 (2^23 <= M < 2^24 for a normal number, M < 2^23 and        *)
(* E = -149 for a subnormal one and for zero).  Every arithmetic operator  *)
(* rounds to nearest, ties to even, as the hardware does.                  *)
(***************************************************************************)
EXTENDS Integers, Sequences, FiniteSets, TLC

\* ------------------------------------------------------------------ f32

\* Width of the significand of an f32, hidden bit included.
F32MantBits == 24
\* Exponent of the unit in the last place of the smallest f32 values.
F32MinExp == -149
\* Exponent of the unit in the last place of the largest finite f32 values.
F32MaxExp == 104

RECURSIVE Pow2(_)
Pow2(n) == IF n = 0 THEN 1 ELSE 2 * Pow2(n - 1)

RECURSIVE BitLen(_)
BitLen(n) == IF n = 0 THEN 0 ELSE 1 + BitLen(n \div 2)

MaxOf(a, b) == IF a >= b THEN a ELSE b
MinOf(a, b) == IF a <= b THEN a ELSE b

F32Fin(neg, m, e) == [cls |-> "fin", neg |-> neg, m |-> m, e |-> e]
F32Zero == F32Fin(FALSE, 0, F32MinExp)
F32NaN == [cls |-> "nan", neg |-> FALSE, m |-> 0, e |-> 0]
F32Inf(neg) == [cls |-> "inf", neg |-> neg, m |-> 0, e |-> 0]

IsNaN(x) == x.cls = "nan"
IsInf(x) == x.cls = "inf"
IsFinite(x) == x.cls = "fin"
IsZero(x) == x.cls = "fin" /\ x.m = 0

\* m shifted right by sh bits, rounded to nearest, ties to even; sticky says
\* that non-zero bits were already lost below m.
RoundShift(m, sh, sticky) ==
    IF sh > 30
    THEN IF sh = 31 /\ (m > Pow2(30) \/ (m = Pow2(30) /\ sticky)) THEN 1 ELSE 0
    ELSE LET q == m \div Pow2(sh)
             r == m % Pow2(sh)
             half == Pow2(sh - 1)
             up == r > half \/ (r = half /\ (sticky \/ q % 2 = 1))
         IN  IF up THEN q + 1 ELSE q

\* The f32 nearest to (-1)^neg * m * 2^e (m >= 0; with sticky, a little more
\* than m, and m then carries at least 26 significant bits).
F32Round(neg, m, e, sticky) ==
    IF m = 0 THEN F32Zero
    ELSE LET sh == MaxOf(BitLen(m) - F32MantBits, F32MinExp - e)
         IN  IF sh > 0
             THEN LET q == RoundShift(m, sh, sticky)
                      carry == q = Pow2(F32MantBits)
                      m2 == IF carry THEN q \div 2 ELSE q
                      e2 == IF carry THEN e + sh + 1 ELSE e + sh
                  IN  IF e2 > F32MaxExp THEN F32Inf(neg)
                      ELSE IF m2 = 0 THEN F32Zero
                      ELSE F32Fin(neg, m2, e2)
             ELSE LET lsh == MinOf(F32MantBits - BitLen(m), e - F32MinExp)
                  IN  IF e - lsh > F32MaxExp THEN F32Inf(neg)
                      ELSE F32Fin(neg, m * Pow2(lsh), e - lsh)

\* `n as f32` for an unsigned integer n.
F32FromNat(n) == F32Round(FALSE, n, 0, FALSE)

\* An odd significand and its exponent: the same value without trailing zeros.
RECURSIVE StripZeros(_, _)
StripZeros(m, e) ==
    IF m # 0 /\ m % 2 = 0 THEN StripZeros(m \div 2, e + 1) ELSE <<m, e>>

\* a * b.  The product of the two odd significands is formed exactly.
F32Mul(a, b) ==
    IF IsNaN(a) \/ IsNaN(b) THEN F32NaN
    ELSE IF IsInf(a) \/ IsInf(b)
         THEN IF IsZero(a) \/ IsZero(b) THEN F32NaN ELSE F32Inf(a.neg # b.neg)
    ELSE LET oa == StripZeros(a.m, a.e)
             ob == StripZeros(b.m, b.e)
         IN  F32Round(a.neg # b.neg, oa[1] * ob[1], oa[2] + ob[2], FALSE)

\* Long division: quotient bits are produced until q has 26 of them.
RECURSIVE DivBits(_, _, _, _)
DivBits(q, r, d, n) ==
    IF q >= Pow2(F32MantBits + 1) THEN <<q, r, n>>
    ELSE IF 2 * r >= d THEN DivBits(2 * q + 1, 2 * r - d, d, n + 1)
         ELSE DivBits(2 * q, 2 * r, d, n + 1)

\* a / b.
F32Div(a, b) ==
    IF IsNaN(a) \/ IsNaN(b) THEN F32NaN
    ELSE IF IsInf(a) THEN (IF IsInf(b) THEN F32NaN ELSE F32Inf(a.neg # b.neg))
    ELSE IF IsInf(b) THEN F32Zero
    ELSE IF IsZero(b) THEN (IF IsZero(a) THEN F32NaN ELSE F32Inf(a.neg # b.neg))
    ELSE IF IsZero(a) THEN F32Zero
    ELSE LET d == DivBits(a.m \div b.m, a.m % b.m, b.m, 0)
         IN  F32Round(a.neg # b.neg, d[1], a.e - b.e - d[3], d[2] # 0)

\* a + b for a, b that are not negative (sums of squares).
F32Add(a, b) ==
    IF IsNaN(a) \/ IsNaN(b) THEN F32NaN
    ELSE IF IsInf(a) \/ IsInf(b) THEN F32Inf(FALSE)
    ELSE IF IsZero(a) THEN b
    ELSE IF IsZero(b) THEN a
    ELSE LET hi == IF a.e >= b.e THEN a ELSE b
             lo == IF a.e >= b.e THEN b ELSE a
             d == hi.e - lo.e
             h == hi.m * 8
             l == IF d <= 3 THEN lo.m * Pow2(3 - d)
                  ELSE IF d - 3 > F32MantBits THEN 0
                  ELSE lo.m \div Pow2(d - 3)
             sticky == IF d <= 3 THEN FALSE
                       ELSE IF d - 3 > F32MantBits THEN TRUE
                       ELSE lo.m % Pow2(d - 3) # 0
         IN  F32Round(FALSE, h + l, hi.e - 3, sticky)

\* Digit-by-digit square root: the bit pairs of x from pair i down to pair 0,
\* then zero pairs, until the root has 26 bits.
RECURSIVE SqrtBits(_, _, _, _, _)
SqrtBits(x, i, root, rem, n) ==
    IF root >= Pow2(F32MantBits + 1) THEN <<root, rem, n>>
    ELSE LET p == IF i >= 0 THEN (x \div Pow2(2 * i)) % 4 ELSE 0
             r == 4 * rem + p
             t == 4 * root + 1
             n2 == IF i >= 0 THEN n ELSE n + 1
         IN  IF r >= t THEN SqrtBits(x, i - 1, 2 * root + 1, r - t, n2)
             ELSE SqrtBits(x, i - 1, 2 * root, r, n2)

\* sqrt(a).
F32Sqrt(a) ==
    IF IsNaN(a) THEN F32NaN
    ELSE IF IsZero(a) THEN F32Zero
    ELSE IF a.neg THEN F32NaN
    ELSE IF IsInf(a) THEN F32Inf(FALSE)
    ELSE LET odd == a.e % 2 = 1
             x == IF odd THEN 2 * a.m ELSE a.m
             e == IF odd THEN a.e - 1 ELSE a.e
             s == SqrtBits(x, 12, 0, 0, 0)
         IN  F32Round(FALSE, s[1], (e \div 2) - s[3], s[2] # 0)

\* a > b for a, b that are not negative (magnitudes, frequencies).
F32Gt(a, b) ==
    IF IsNaN(a) \/ IsNaN(b) THEN FALSE
    ELSE IF IsInf(a) THEN ~IsInf(b)
    ELSE IF IsInf(b) THEN FALSE
    ELSE a.e > b.e \/ (a.e = b.e /\ a.m > b.m)

\* a < b, likewise.
F32Lt(a, b) == F32Gt(b, a)

\* The position of a finite, non-negative f32 among the f32 values (its bit
\* pattern): neighbours differ by one.
F32Bits(x) == (x.e - F32MinExp) * Pow2(F32MantBits - 1) + x.m

\* --------------------------------------------------------- the analyser

\* A delivered buffer after the conversion of its samples to f32: len samples,
\* sample i (from 0) being wave[(i mod Len(wave)) + 1].
Sample(buf, i) == buf.wave[(i % Len(buf.wave)) + 1]

\* samples.iter().map(|&x| x * x).sum() over the samples lo..hi-1, in order,
\* added to acc.  The range is halved so that the evaluation stays shallow; the
\* additions happen in the order of the iterator.
RECURSIVE SumSquares(_, _, _, _)
SumSquares(buf, lo, hi, acc) ==
    IF lo >= hi THEN acc
    ELSE IF hi = lo + 1 THEN F32Add(acc, F32Mul(Sample(buf, lo), Sample(buf, lo)))
    ELSE LET mid == (lo + hi) \div 2
             left == SumSquares(buf, lo, mid, acc)
         IN  IF left.cls = "nan" THEN left ELSE SumSquares(buf, mid, hi, left)

calculate_rms(buf) ==
    IF buf.len = 0 THEN F32Zero
    ELSE F32Sqrt(F32Div(SumSquares(buf, 0, buf.len, F32Zero), F32FromNat(buf.len)))

\* The size of the analysis window.
WindowSize == 1024

\* The transform of the windowed samples, as the FFT library returns it, by the
\* magnitude (norm) of each bin: at[i] for the bins listed, rest for the others.
Magnitude(sp, i) == IF i \in DOMAIN sp.at THEN sp.at[i] ELSE sp.rest

\* A peak test that forgets the upper limit of the scan.
PeakTestWholeSpectrum(magnitude, max_magnitude, i) ==
    F32Gt(magnitude, max_magnitude) /\ i > 0

\* The test that makes bin i the new peak.
PeakTest(magnitude, max_magnitude, i) ==
    F32Gt(magnitude, max_magnitude) /\ i > 0 /\ i < WindowSize \div 2

\* One turn of the loop over the bins: st is <<max_magnitude, peak_bin>>.
PeakStep(sp, i, st) ==
    IF PeakTest(Magnitude(sp, i), st[1], i) THEN <<Magnitude(sp, i), i>> ELSE st

\* The loop over the bins lo..hi-1, in order (the range is halved so that the
\* evaluation stays shallow).
RECURSIVE PeakScan(_, _, _, _)
PeakScan(sp, lo, hi, st) ==
    IF lo >= hi THEN st
    ELSE IF hi = lo + 1 THEN PeakStep(sp, lo, st)
    ELSE LET mid == (lo + hi) \div 2
             left == PeakScan(sp, lo, mid, st)
         IN  IF left[2] >= 0 THEN PeakScan(sp, mid, hi, left) ELSE left

\* let mut max_magnitude = 0.0; let mut peak_bin = 0; and the loop.
PeakBin(sp) == PeakScan(sp, 0, WindowSize, <<F32Zero, 0>>)[2]

\* (peak_bin as f32 * sample_rate) / window_size as f32
BinToFrequency(peak_bin, sample_rate) ==
    F32Div(F32Mul(F32FromNat(peak_bin), sample_rate), F32FromNat(WindowSize))

\* An early return taken by the empty buffer only.
ShortBufferOnlyEmpty(len) == len = 0

\* The early return of calculate_frequency.
ShortBuffer(len) == len < WindowSize

\* calculate_frequency: the frequency, or a panic where the slice
\* samples[..window_size] is out of range.
calculate_frequency(len, sp, sample_rate) ==
    IF ShortBuffer(len) THEN [panic |-> FALSE, value |-> F32Zero]
    ELSE IF len < WindowSize THEN [panic |-> TRUE, value |-> F32Zero]
    ELSE [panic |-> FALSE, value |-> BinToFrequency(PeakBin(sp), sample_rate)]

\* A wavelength left in metres.
WavelengthInMetres(frequency) ==
    IF F32Gt(frequency, F32Zero) THEN F32Div(F32FromNat(343), frequency) ELSE F32Zero

\* if frequency > 0.0 { 343.0 / frequency * 100.0 } else { 0.0 }
Wavelength(frequency) ==
    IF F32Gt(frequency, F32Zero)
    THEN F32Mul(F32Div(F32FromNat(343), frequency), F32FromNat(100))
    ELSE F32Zero

\* AudioData::new()
NewAudioData == [amplitude |-> F32Zero, frequency |-> F32Zero, wavelength |-> F32Zero]

\* The band printed for a frequency.
Band(frequency) ==
    IF F32Lt(frequency, F32FromNat(80)) THEN "Bass"
    ELSE IF F32Lt(frequency, F32FromNat(250)) THEN "Low Mid"
    ELSE IF F32Lt(frequency, F32FromNat(2000)) THEN "Mid"
    ELSE IF F32Lt(frequency, F32FromNat(4000)) THEN "High Mid"
    ELSE "Treble"

\* Rust's integer division and remainder, which round toward zero.
RustDiv(a, b) == IF a >= 0 THEN a \div b ELSE -((-a) \div b)
RustRem(a, b) == a - b * RustDiv(a, b)

note_names == <<"A", "A#", "B", "C", "C#", "D", "D#", "E", "F", "F#", "G", "G#">>

\* 4 + (rounded_semitones / 12)
NoteOctave(rounded_semitones) == 4 + RustDiv(rounded_semitones, 12)

\* ((rounded_semitones % 12) + 12) % 12
NoteIndex(rounded_semitones) == RustRem(RustRem(rounded_semitones, 12) + 12, 12)

\* frequency_to_note for a frequency that is positive or not and, when it is,
\* has `semitones.round() as i32` = rounded_semitones: the name and the octave
\* that format! joins.
frequency_to_note(positive, rounded_semitones) ==
    IF ~positive THEN <<"Silence">>
    ELSE <<note_names[NoteIndex(rounded_semitones) + 1], NoteOctave(rounded_semitones)>>

\* ---------------------------------------------------------- the inputs

\* The largest number of input devices the host lists.
MaxDevices == 2
\* The rounded semitone offsets tried lie in -MaxSemitones..MaxSemitones.
MaxSemitones == 30
\* The finite bin magnitudes tried by the peak-picking runs are 0..MaxMagnitude.
MaxMagnitude == 2

One == F32FromNat(1)
MinusOne == [One EXCEPT !.neg = TRUE]
Half == F32Div(One, F32FromNat(2))
MinusHalf == [Half EXCEPT !.neg = TRUE]
\* 2^63: its square is finite, the sum of four such squares is not.
Huge == F32Fin(FALSE, Pow2(F32MantBits - 1), 40)

\* One period of a square wave of p samples between -1/2 and 1/2.
SquareWave(p) == [i \in 1..p |-> IF i <= p \div 2 THEN Half ELSE MinusHalf]

EmptyBuffer == [len |-> 0, wave |-> <<F32Zero>>]
ShortTone == [len |-> WindowSize - 1, wave |-> <<One, F32Zero, MinusOne, F32Zero>>]
Silence == [len |-> WindowSize, wave |-> <<F32Zero>>]
Tone == [len |-> WindowSize, wave |-> <<One, F32Zero, MinusOne, F32Zero>>]
LowTone == [len |-> 2 * WindowSize, wave |-> SquareWave(205)]
NaNBuffer == [len |-> WindowSize, wave |-> <<One, F32NaN>>]
HugeBuffer == [len |-> WindowSize, wave |-> <<Huge>>]

\* What the FFT library returns for these buffers (the library is not part of
\* the repository): the windowed tone peaks at a quarter of the sample rate
\* (bin 256, mirrored at 768), the square wave at bin 5 with a weaker third
\* harmonic, the constant buffer at bin 0 with the window's leakage into bin 1,
\* and a NaN sample makes every bin NaN.
ZeroSpectrum == [at |-> <<>>, rest |-> F32Zero]
ToneSpectrum ==
    [at |-> (255 :> F32FromNat(128)) @@ (256 :> F32FromNat(256)) @@ (257 :> F32FromNat(128))
            @@ (767 :> F32FromNat(128)) @@ (768 :> F32FromNat(256)) @@ (769 :> F32FromNat(128)),
     rest |-> F32Zero]
LowToneSpectrum ==
    [at |-> (4 :> F32FromNat(80)) @@ (5 :> F32FromNat(160)) @@ (6 :> F32FromNat(80))
            @@ (15 :> F32FromNat(50)) @@ (1009 :> F32FromNat(50))
            @@ (1018 :> F32FromNat(80)) @@ (1019 :> F32FromNat(160)) @@ (1020 :> F32FromNat(80)),
     rest |-> F32Zero]
HugeSpectrum ==
    [at |-> (0 :> F32Mul(Huge, F32FromNat(512))) @@ (1 :> F32Mul(Huge, F32FromNat(256)))
            @@ (1023 :> F32Mul(Huge, F32FromNat(256))),
     rest |-> F32Zero]
NaNSpectrum == [at |-> <<>>, rest |-> F32NaN]

\* What the audio host may deliver to the callback: finite says that the
\* buffer can also come from an i16 or u16 stream, whose samples convert to
\* finite values in [-1, 1].
Deliveries ==
    { [id |-> "empty", buf |-> EmptyBuffer, sp |-> ZeroSpectrum, finite |-> TRUE],
      [id |-> "short_tone", buf |-> ShortTone, sp |-> ZeroSpectrum, finite |-> TRUE],
      [id |-> "silence", buf |-> Silence, sp |-> ZeroSpectrum, finite |-> TRUE],
      [id |-> "tone", buf |-> Tone, sp |-> ToneSpectrum, finite |-> TRUE],
      [id |-> "low_tone", buf |-> LowTone, sp |-> LowToneSpectrum, finite |-> TRUE],
      [id |-> "nan", buf |-> NaNBuffer, sp |-> NaNSpectrum, finite |-> FALSE],
      [id |-> "huge", buf |-> HugeBuffer, sp |-> HugeSpectrum, finite |-> FALSE] }

SampleFormats == {"F32", "I16", "U16", "Other"}
SampleRates == {44100, 48000}

DeliveriesFor(format) == {d \in Deliveries : format = "F32" \/ d.finite}

\* The line read from standard input: a number, or something that does not
\* parse as one.
Inputs == {[numeric |-> FALSE, value |-> 0]}
          \cup {[numeric |-> TRUE, value |-> v] : v \in 0..MaxDevices}

\* The callback's computation for a delivered buffer, sample_rate being
\* config.sample_rate.0: amplitude, frequency and wavelength, or a panic.
Analyze(d, rate) ==
    LET amplitude == calculate_rms(d.buf)
        frequency == calculate_frequency(d.buf.len, d.sp, F32FromNat(rate))
    IN  [panic |-> frequency.panic,
         data |-> [amplitude |-> amplitude,
                   frequency |-> frequency.value,
                   wavelength |-> Wavelength(frequency.value)]]

DeliveryIds == {d.id : d \in Deliveries}
DeliveryOf(id) == CHOOSE d \in Deliveries : d.id = id

\* The transforms tried by the runs of the peak-picking alone: every choice of
\* a magnitude for the bins around the limits of the scan, and one magnitude
\* for all the other bins.
ProbeBins == {0, 1, 2, WindowSize \div 2 - 1, WindowSize \div 2}
MagLevels == {F32FromNat(k) : k \in 0..MaxMagnitude} \cup {F32NaN}
PeakSpectra == {[at |-> a, rest |-> r] : a \in [ProbeBins -> MagLevels],
                                         r \in {F32Zero, One}}

\* ----------------------------------------------------------- the state

VARIABLES
    mainPc,        \* where main is
    numDevices,    \* input_devices.len()
    device_index,  \* the parsed selection (-1: none yet)
    prompts,       \* how many times the selection prompt was printed
    stderr,        \* the last message reported on standard error
    exitStatus,    \* "running", or how the process ended
    format,        \* config.sample_format()
    sample_rate,   \* config.sample_rate().0
    streamState,   \* the input stream: "none", "built", "playing", "dropped"
    analysis,      \* the closure built by create_stream, by what it computes
                   \* for each buffer the stream may deliver
    holder,        \* who holds the guard of the Mutex<AudioData>
    poisoned,      \* the mutex's poison flag
    store,         \* the AudioData inside the mutex
    storeBy,       \* for each field of store, the delivery whose publish wrote it
    lastPublished, \* the AudioData as the last completed publish left it
    cbPc,          \* where the callback invocation is
    cbLen,         \* data.len() of the buffer being handled
    cbId,          \* the delivery being handled
    cbLocal,       \* the callback's amplitude, frequency and wavelength
    shown,         \* the three values the display loop printed last
    shownBy,       \* for each of them, the delivery whose publish wrote it
    shownBand,     \* the band printed last
    pkPc, pkSpectrum, pkRate, pkFrequency,   \* a run of the peak-picking alone
    ntPc, ntPositive, ntSemitones, ntNote    \* a run of frequency_to_note alone

mainVars == <<mainPc, numDevices, device_index, prompts, stderr, exitStatus,
              format, sample_rate, streamState>>
mutexVars == <<holder, poisoned, store, storeBy, lastPublished>>
cbVars == <<cbPc, cbLen, cbId, cbLocal>>
displayVars == <<shown, shownBy, shownBand>>
peakVars == <<pkPc, pkSpectrum, pkRate, pkFrequency>>
noteVars == <<ntPc, ntPositive, ntSemitones, ntNote>>
vars == <<mainVars, mutexVars, cbVars, displayVars, peakVars, noteVars, analysis>>

Fields == {"amplitude", "frequency", "wavelength"}

\* The states of main in which the display loop renders: from the guard taken
\* at `let data = audio_data.lock().unwrap()` to its drop at the end of the block.
RenderPcs == {"clear", "print_amplitude", "print_frequency", "print_wavelength",
              "band", "flush"}
\* Those in which it runs println!, which panics when standard output fails.
PrintPcs == {"print_amplitude", "print_frequency", "print_wavelength", "band"}

InitMain ==
    /\ mainPc = "start"
    /\ numDevices = 0
    /\ device_index = -1
    /\ prompts = 0
    /\ stderr = ""
    /\ exitStatus = "running"
    /\ format = "none"
    /\ sample_rate = 0
    /\ streamState = "none"
    /\ holder = "none"
    /\ poisoned = FALSE
    /\ store = NewAudioData
    /\ storeBy = [f \in Fields |-> "init"]
    /\ lastPublished = NewAudioData
    /\ cbPc = "idle"
    /\ cbLen = 0
    /\ cbId = "init"
    /\ cbLocal = NewAudioData
    /\ shown = NewAudioData
    /\ shownBy = [f \in Fields |-> "init"]
    /\ shownBand = ""
    /\ analysis = <<>>

InitPeakIdle ==
    /\ pkPc = "off"
    /\ pkSpectrum = ZeroSpectrum
    /\ pkRate = 0
    /\ pkFrequency = F32Zero

InitNoteIdle ==
    /\ ntPc = "off"
    /\ ntPositive = FALSE
    /\ ntSemitones = 0
    /\ ntNote = <<>>

Init == InitMain /\ InitPeakIdle /\ InitNoteIdle

\* ------------------------------------------------------------ start-up

\* main returns: Ok(()) ends the process with success, Err(e) with failure
\* after the runtime prints the error.  Dropping main's locals drops the
\* guard, if main holds it, and the stream.
Exit(status, message) ==
    /\ mainPc' = "exited"
    /\ exitStatus' = status
    /\ stderr' = message
    /\ streamState' = IF streamState \in {"built", "playing"} THEN "dropped" ELSE streamState
    /\ holder' = IF holder = "main" THEN "none" ELSE holder

\* host.input_devices()?.collect(), and the test for no device.
MainEnumerate ==
    /\ mainPc = "start"
    /\ \E ok \in BOOLEAN, n \in 0..MaxDevices :
          IF ~ok
          THEN Exit("failure", "Error: devices unavailable")
               /\ UNCHANGED <<numDevices, device_index, prompts, format, sample_rate>>
          ELSE IF n = 0
          THEN Exit("success", "No input devices found!")
               /\ numDevices' = n
               /\ UNCHANGED <<device_index, prompts, format, sample_rate>>
          ELSE /\ numDevices' = n
               /\ mainPc' = "prompt"
               /\ UNCHANGED <<device_index, prompts, stderr, exitStatus, format,
                              sample_rate, streamState, holder>>
    /\ UNCHANGED <<poisoned, store, storeBy, lastPublished, cbVars, displayVars,
                   peakVars, noteVars, analysis>>

\* The list of the devices and the prompt.
MainPrompt ==
    /\ mainPc = "prompt"
    /\ prompts' = prompts + 1
    /\ mainPc' = "read"
    /\ UNCHANGED <<numDevices, device_index, stderr, exitStatus, format, sample_rate,
                   streamState, mutexVars, cbVars, displayVars, peakVars, noteVars, analysis>>

\* read_line, input.trim().parse()? and the range test.
MainReadSelection ==
    /\ mainPc = "read"
    /\ \E input \in Inputs :
          IF ~input.numeric
          THEN Exit("failure", "Error: ParseIntError")
               /\ UNCHANGED device_index
          ELSE IF input.value >= numDevices
          THEN Exit("success", "Invalid device selection!")
               /\ device_index' = input.value
          ELSE /\ device_index' = input.value
               /\ mainPc' = "config"
               /\ UNCHANGED <<stderr, exitStatus, streamState, holder>>
    /\ UNCHANGED <<numDevices, prompts, format, sample_rate, poisoned, store, storeBy,
                   lastPublished, cbVars, displayVars, peakVars, noteVars, analysis>>

\* device.default_input_config()?
MainConfig ==
    /\ mainPc = "config"
    /\ \E ok \in BOOLEAN, fmt \in SampleFormats, rate \in SampleRates :
          IF ~ok
          THEN Exit("failure", "Error: no input config")
               /\ UNCHANGED <<format, sample_rate>>
          ELSE /\ format' = fmt
               /\ sample_rate' = rate
               /\ mainPc' = "create"
               /\ UNCHANGED <<stderr, exitStatus, streamState, holder>>
    /\ UNCHANGED <<numDevices, device_index, prompts, poisoned, store, storeBy,
                   lastPublished, cbVars, displayVars, peakVars, noteVars, analysis>>

\* The match on the sample format and create_stream::<T>(..)?
MainCreateStream ==
    /\ mainPc = "create"
    /\ \E ok \in BOOLEAN :
          IF format = "Other"
          THEN Exit("failure", "Error: Unsupported sample format")
               /\ UNCHANGED analysis
          ELSE IF ~ok
          THEN Exit("failure", "Error: build_input_stream")
               /\ UNCHANGED analysis
          ELSE /\ streamState' = "built"
               /\ analysis' = [id \in {d.id : d \in DeliveriesFor(format)} |->
                                   Analyze(DeliveryOf(id), sample_rate)]
               /\ mainPc' = "play"
               /\ UNCHANGED <<stderr, exitStatus, holder>>
    /\ UNCHANGED <<numDevices, device_index, prompts, format, sample_rate, poisoned,
                   store, storeBy, lastPublished, cbVars, displayVars, peakVars, noteVars>>

\* stream.play()? and the first clearing of the terminal.
MainPlay ==
    /\ mainPc = "play"
    /\ \E ok \in BOOLEAN :
          IF ~ok
          THEN Exit("failure", "Error: play")
          ELSE /\ streamState' = "playing"
               /\ mainPc' = "poll"
               /\ UNCHANGED <<stderr, exitStatus, holder>>
    /\ UNCHANGED <<numDevices, device_index, prompts, format, sample_rate, poisoned,
                   store, storeBy, lastPublished, cbVars, displayVars, peakVars, noteVars, analysis>>

\* ------------------------------------------------------------ the mutex

\* A lock that excludes nobody.
CanAcquireAlways == TRUE

\* Mutex::lock returns once no other thread holds the guard.
CanAcquire == holder = "none"

\* An assignment that merges: a zero does not replace the field's old value.
WriteFieldKeepNonZero(data, f, v) == IF IsZero(v) THEN data ELSE [data EXCEPT ![f] = v]

\* An assignment to one field of the guarded AudioData.
WriteField(data, f, v) == [data EXCEPT ![f] = v]

\* --------------------------------------------------------- the callback

\* The host delivers a buffer: the samples are converted and analysed.
CallbackInvoke ==
    /\ streamState = "playing"
    /\ cbPc = "idle"
    /\ \E id \in DOMAIN analysis :
          LET a == analysis[id]
          IN  /\ cbPc' = IF a.panic THEN "panicked" ELSE "acquire"
              /\ cbLen' = DeliveryOf(id).buf.len
              /\ cbId' = id
              /\ cbLocal' = a.data
    /\ UNCHANGED <<mainVars, mutexVars, displayVars, peakVars, noteVars, analysis>>

\* if let Ok(mut data) = audio_data.lock(): a poisoned mutex yields Err, whose
\* guard is dropped at once, and the callback returns.
CallbackLock ==
    /\ streamState = "playing"
    /\ cbPc = "acquire"
    /\ CanAcquire
    /\ IF poisoned
       THEN /\ cbPc' = "idle"
            /\ cbLen' = 0
            /\ cbId' = "init"
            /\ cbLocal' = NewAudioData
            /\ UNCHANGED holder
       ELSE /\ cbPc' = "write_amplitude"
            /\ holder' = "callback"
            /\ UNCHANGED <<cbLen, cbId, cbLocal>>
    /\ UNCHANGED <<mainVars, poisoned, store, storeBy, lastPublished, displayVars,
                   peakVars, noteVars, analysis>>

CallbackWrite(f, next) ==
    /\ streamState = "playing"
    /\ cbPc = "write_" \o f
    /\ store' = WriteField(store, f, cbLocal[f])
    /\ storeBy' = [storeBy EXCEPT ![f] = cbId]
    /\ cbPc' = next
    /\ UNCHANGED <<mainVars, holder, poisoned, lastPublished, cbLen, cbId, cbLocal,
                   displayVars, peakVars, noteVars, analysis>>

\* data.amplitude = amplitude
CallbackWriteAmplitude == CallbackWrite("amplitude", "write_frequency")
\* data.frequency = frequency
CallbackWriteFrequency == CallbackWrite("frequency", "write_wavelength")
\* data.wavelength = wavelength
CallbackWriteWavelength == CallbackWrite("wavelength", "release")

\* The guard is dropped at the end of the if let and the callback returns.
CallbackRelease ==
    /\ streamState = "playing"
    /\ cbPc = "release"
    /\ holder' = IF holder = "callback" THEN "none" ELSE holder
    /\ lastPublished' = store
    /\ cbPc' = "idle"
    /\ cbLen' = 0
    /\ cbId' = "init"
    /\ cbLocal' = NewAudioData
    /\ UNCHANGED <<mainVars, poisoned, store, storeBy, displayVars, peakVars, noteVars, analysis>>

\* ----------------------------------------------------- the display loop

\* if last_update.elapsed() >= update_interval
DisplayPoll ==
    /\ mainPc = "poll"
    /\ \E elapsed \in BOOLEAN : mainPc' = IF elapsed THEN "lock" ELSE "sleep"
    /\ UNCHANGED <<numDevices, device_index, prompts, stderr, exitStatus, format,
                   sample_rate, streamState, mutexVars, cbVars, displayVars,
                   peakVars, noteVars, analysis>>

\* thread::sleep(Duration::from_millis(10))
DisplaySleep ==
    /\ mainPc = "sleep"
    /\ mainPc' = "poll"
    /\ UNCHANGED <<numDevices, device_index, prompts, stderr, exitStatus, format,
                   sample_rate, streamState, mutexVars, cbVars, displayVars,
                   peakVars, noteVars, analysis>>

\* let data = audio_data.lock().unwrap(): unwrap panics on a poisoned mutex.
DisplayLock ==
    /\ mainPc = "lock"
    /\ CanAcquire
    /\ IF poisoned
       THEN /\ mainPc' = "panicking"
            /\ UNCHANGED holder
       ELSE /\ mainPc' = "clear"
            /\ holder' = "main"
    /\ UNCHANGED <<numDevices, device_index, prompts, stderr, exitStatus, format,
                   sample_rate, streamState, poisoned, store, storeBy, lastPublished,
                   cbVars, displayVars, peakVars, noteVars, analysis>>

\* The screen is cleared, the cursor moved and the colours queued.
DisplayClear ==
    /\ mainPc = "clear"
    /\ mainPc' = "print_amplitude"
    /\ UNCHANGED <<numDevices, device_index, prompts, stderr, exitStatus, format,
                   sample_rate, streamState, mutexVars, cbVars, displayVars,
                   peakVars, noteVars, analysis>>

DisplayPrint(f, next) ==
    /\ mainPc = "print_" \o f
    /\ shown' = [shown EXCEPT ![f] = store[f]]
    /\ shownBy' = [shownBy EXCEPT ![f] = storeBy[f]]
    /\ mainPc' = next
    /\ UNCHANGED <<numDevices, device_index, prompts, stderr, exitStatus, format,
                   sample_rate, streamState, mutexVars, cbVars, shownBand,
                   peakVars, noteVars, analysis>>

\* println!("  Amplitude: {:.3}", data.amplitude)
DisplayPrintAmplitude == DisplayPrint("amplitude", "print_frequency")
\* println!("  Frequency: {:.1} Hz", data.frequency)
DisplayPrintFrequency == DisplayPrint("frequency", "print_wavelength")
\* println!("  Wavelength: {:.2} cm", data.wavelength)
DisplayPrintWavelength == DisplayPrint("wavelength", "band")

\* The band of data.frequency and the rest of the report (the note computed by
\* frequency_to_note is not printed).
DisplayBand ==
    /\ mainPc = "band"
    /\ shownBand' = Band(store.frequency)
    /\ mainPc' = "flush"
    /\ UNCHANGED <<numDevices, device_index, prompts, stderr, exitStatus, format,
                   sample_rate, streamState, mutexVars, cbVars, shown, shownBy,
                   peakVars, noteVars, analysis>>

\* stdout.flush()?, last_update = Instant::now(), and the guard is dropped at
\* the end of the block.
DisplayFlush ==
    /\ mainPc = "flush"
    /\ holder' = IF holder = "main" THEN "none" ELSE holder
    /\ mainPc' = "sleep"
    /\ UNCHANGED <<numDevices, device_index, prompts, stderr, exitStatus, format,
                   sample_rate, streamState, poisoned, store, storeBy, lastPublished,
                   cbVars, displayVars, peakVars, noteVars, analysis>>

\* One of the terminal commands followed by ? fails: main returns the error.
DisplayIoError ==
    /\ mainPc \in RenderPcs
    /\ Exit("failure", "Error: terminal")
    /\ UNCHANGED <<numDevices, device_index, prompts, format, sample_rate, poisoned,
                   store, storeBy, lastPublished, cbVars, displayVars, peakVars, noteVars, analysis>>

\* println! panics because standard output fails: the guard is dropped while
\* the thread panics, which poisons the mutex.
DisplayPrintPanic ==
    /\ mainPc \in PrintPcs
    /\ mainPc' = "panicking"
    /\ poisoned' = TRUE
    /\ holder' = IF holder = "main" THEN "none" ELSE holder
    /\ UNCHANGED <<numDevices, device_index, prompts, stderr, exitStatus, format,
                   sample_rate, streamState, store, storeBy, lastPublished,
                   cbVars, displayVars, peakVars, noteVars, analysis>>

\* The panic ends main: the stream is dropped and the process ends.
MainUnwind ==
    /\ mainPc = "panicking"
    /\ Exit("panic", "thread 'main' panicked")
    /\ UNCHANGED <<numDevices, device_index, prompts, format, sample_rate, poisoned,
                   store, storeBy, lastPublished, cbVars, displayVars, peakVars, noteVars, analysis>>

Next ==
    \/ MainEnumerate \/ MainPrompt \/ MainReadSelection \/ MainConfig
    \/ MainCreateStream \/ MainPlay
    \/ CallbackInvoke \/ CallbackLock \/ CallbackWriteAmplitude
    \/ CallbackWriteFrequency \/ CallbackWriteWavelength \/ CallbackRelease
    \/ DisplayPoll \/ DisplaySleep \/ DisplayLock \/ DisplayClear
    \/ DisplayPrintAmplitude \/ DisplayPrintFrequency \/ DisplayPrintWavelength
    \/ DisplayBand \/ DisplayFlush \/ DisplayIoError \/ DisplayPrintPanic
    \/ MainUnwind

Spec == Init /\ [][Next]_vars

\* ------------------------------------------- the pure functions, alone

\* calculate_frequency on a window whose transform is pkSpectrum.
InitPeak ==
    /\ InitMain /\ InitNoteIdle
    /\ pkPc = "ready"
    /\ pkSpectrum \in PeakSpectra
    /\ pkRate \in SampleRates
    /\ pkFrequency = F32Zero

PeakRun ==
    /\ pkPc = "ready"
    /\ pkFrequency' = calculate_frequency(WindowSize, pkSpectrum, F32FromNat(pkRate)).value
    /\ pkPc' = "done"
    /\ UNCHANGED <<mainVars, mutexVars, cbVars, displayVars, pkSpectrum, pkRate, noteVars, analysis>>

SpecPeak == InitPeak /\ [][PeakRun]_vars

\* frequency_to_note on a frequency that is positive or not and whose rounded
\* semitone offset from A4 is ntSemitones.
InitNote ==
    /\ InitMain /\ InitPeakIdle
    /\ ntPc = "ready"
    /\ ntPositive \in BOOLEAN
    /\ ntSemitones \in -MaxSemitones..MaxSemitones
    /\ ntNote = <<>>

NoteRun ==
    /\ ntPc = "ready"
    /\ ntNote' = frequency_to_note(ntPositive, ntSemitones)
    /\ ntPc' = "done"
    /\ UNCHANGED <<mainVars, mutexVars, cbVars, displayVars, peakVars, ntPositive, ntSemitones, analysis>>

SpecNote == InitNote /\ [][NoteRun]_vars

\* ------------------------------------------------------------ the claims

\* The AudioData that the publish of delivery id writes ("init": none yet).
PublishedData(id) ==
    IF id = "init" THEN NewAudioData ELSE analysis[id].data

\* The display loop has read the three fields for this report.
ReadComplete == mainPc \in {"band", "flush"}

\* C1: every triple the display loop reads is the initial all-zero value or
\* the triple written by one single publish: the three fields it read were
\* written by the same publish and are that publish's values, never a mixture
\* of two publishes.
C1_NoTornRead ==
    ReadComplete =>
        \E id \in DeliveryIds \cup {"init"} :
            /\ \A f \in Fields : shownBy[f] = id
            /\ shown = PublishedData(id)

\* C1's case: the display loop has read the triple of one publish while the
\* callback, invoked again with another buffer, is at its lock.
C1_Witness ==
    /\ ReadComplete
    /\ shownBy.amplitude = "tone"
    /\ shown = analysis["tone"].data
    /\ cbPc = "acquire"
    /\ cbId = "low_tone"

\* C2 (as claimed): in no reachable state is a callback invocation waiting to
\* acquire the store while the display loop renders with the store still held.
C2_DisplayNeverBlocksCallback ==
    ~(cbPc = "acquire" /\ holder = "main" /\ mainPc \in RenderPcs)

C4_FatalStartupFails ==
    (mainPc = "exited" /\ stderr \in {"No input devices found!",
                                      "Error: ParseIntError",
                                      "Invalid device selection!"})
        => /\ exitStatus = "failure"
           /\ prompts <= 1
           /\ streamState = "none"

\* The store is not in the middle of a publish: it holds the initial value or
\* what a completed publish left.
NoPublishInProgress == holder # "callback"

\* C5 (as claimed): the value held in the store has frequency = 0.0 exactly
\* when wavelength = 0.0, and when frequency > 0.0 the wavelength equals
\* 34300.0 / frequency.
C5_WavelengthIsQuotient ==
    NoPublishInProgress =>
        /\ IsZero(store.frequency) <=> IsZero(store.wavelength)
        /\ F32Gt(store.frequency, F32Zero) =>
               store.wavelength = F32Div(F32FromNat(34300), store.frequency)

\* C5 (amended): the value held in the store has frequency = 0.0 exactly when
\* wavelength = 0.0, and when frequency > 0.0 the wavelength is the f32 value
\* of 343.0 / frequency * 100.0, which is 34300.0 / frequency or one of its
\* two neighbours among the f32 values.
C5_WavelengthWithinOneUlp ==
    NoPublishInProgress =>
        /\ IsZero(store.frequency) <=> IsZero(store.wavelength)
        /\ F32Gt(store.frequency, F32Zero) =>
               LET quotient == F32Div(F32FromNat(34300), store.frequency)
                   distance == F32Bits(store.wavelength) - F32Bits(quotient)
               IN  /\ IsFinite(store.wavelength)
                   /\ store.wavelength =
                          F32Mul(F32Div(F32FromNat(343), store.frequency), F32FromNat(100))
                   /\ distance \in {-1, 0, 1}

\* C5's case: a completed publish left a positive frequency whose wavelength
\* is a neighbour of 34300.0 / frequency, not that value.
C5_Witness ==
    /\ NoPublishInProgress
    /\ storeBy.wavelength = "low_tone"
    /\ F32Gt(store.frequency, F32Zero)
    /\ store.wavelength # F32Div(F32FromNat(34300), store.frequency)

\* C6 (as claimed): every value a publish leaves in the store has a finite
\* amplitude, frequency and wavelength.
C6_PublishedFinite ==
    NoPublishInProgress => \A f \in Fields : IsFinite(store[f])

\* C7 (as claimed): for a positive frequency whose rounded semitone offset is
\* r, frequency_to_note returns the name at index ((r mod 12) + 12) mod 12 and
\* the octave 4 + floor(r / 12); for a frequency <= 0.0 it returns "Silence".
C7_NoteUsesFloorOctave ==
    ntPc = "done" =>
        ntNote = IF ntPositive
                 THEN <<note_names[(((ntSemitones % 12) + 12) % 12) + 1],
                        4 + (ntSemitones \div 12)>>
                 ELSE <<"Silence">>

\* C8: a callback invocation for a buffer of fewer than 1024 samples does not
\* fail, computes frequency 0.0 and wavelength 0.0 whatever the buffer holds,
\* and its publish leaves frequency 0.0 and wavelength 0.0 in the store.
C8_ShortBufferPublishesSilence ==
    (cbPc # "idle" /\ cbLen < WindowSize) =>
        /\ cbPc # "panicked"
        /\ IsZero(cbLocal.frequency)
        /\ IsZero(cbLocal.wavelength)
        /\ cbPc = "release" =>
               IsZero(store.frequency) /\ IsZero(store.wavelength)

\* C8's case: a buffer of 1023 samples of a tone has been published over the
\* metrics of a full buffer, whose frequency was positive.
C8_Witness ==
    /\ cbPc = "release"
    /\ cbLen = WindowSize - 1
    /\ ~IsZero(store.amplitude)
    /\ F32Gt(lastPublished.frequency, F32Zero)
    /\ IsZero(store.frequency)
    /\ IsZero(store.wavelength)

\* The bins the peak-picking may select.
ScanBins == 1..(WindowSize \div 2 - 1)

\* C9: the bin selected is the lowest bin k of 1..511 whose magnitude is the
\* maximum over the bins 1..511, whatever bin 0 and the bins 512..1023 hold,
\* and the frequency returned is k * sample_rate / 1024; when no bin of 1..511
\* has a magnitude above 0.0 the frequency returned is 0.0.
C9_PeakIsFirstMaximum ==
    pkPc = "done" =>
        LET mags == {Magnitude(pkSpectrum, j) : j \in ScanBins}
            tops == {v \in mags : F32Gt(v, F32Zero) /\ \A w \in mags : ~F32Gt(w, v)}
        IN  IF tops = {} THEN pkFrequency = F32Zero
            ELSE \E k \in ScanBins :
                    /\ Magnitude(pkSpectrum, k) \in tops
                    /\ \A j \in 1..(k - 1) : Magnitude(pkSpectrum, j) \notin tops
                    /\ pkFrequency = BinToFrequency(k, F32FromNat(pkRate))

\* C9's case: bins 1 and 2 tie for the maximum of the scanned bins while bin 0
\* and bin 512 are larger, and bin 1 has been selected.
C9_Witness ==
    /\ pkPc = "done"
    /\ pkSpectrum.rest = F32Zero
    /\ pkSpectrum.at[0] = F32FromNat(2)
    /\ pkSpectrum.at[WindowSize \div 2] = F32FromNat(2)
    /\ pkSpectrum.at[1] = One
    /\ pkSpectrum.at[2] = One
    /\ pkSpectrum.at[WindowSize \div 2 - 1] = F32Zero
    /\ pkFrequency = BinToFrequency(1, F32FromNat(pkRate))

\* C10: a completed publish leaves in the store the three metrics of its one
\* buffer; no step of main, the display loop included, changes the store; and
\* a completed read of the display loop returns what the last completed
\* publish left (the initial all-zero value if there was none).
C10_PublishReplacesReadSeesLatest ==
    [][ /\ (cbPc = "release" /\ cbPc' = "idle") =>
               (store' = cbLocal /\ lastPublished' = cbLocal)
        /\ mainPc' # mainPc => store' = store
        /\ (mainPc = "print_wavelength" /\ mainPc' = "band") =>
               shown' = lastPublished' ]_vars

\* C10's case: the display loop, which showed a tone in its last report, has
\* read the all-zero metrics that the publish of a silent buffer put in place
\* of the tone's.
C10_Witness ==
    /\ mainPc = "band"
    /\ shownBand = "Treble"
    /\ shownBy.amplitude = "silence"
    /\ shown = NewAudioData
    /\ lastPublished = NewAudioData

====
